---- MODULE Spec2Model ----
(***************************************************************************)
(* Model of adaptive_investment_strategy/core/invest_core.py.              *)
(*                                                                         *)
(* The state is a CoreInvestmentAgent as its constructor builds it: the    *)
(* two collaborator references the components read                         *)
(* (MarketRegimeDetector.data_collector and                                *)
(* PortfolioOptimizer.market_regime_detector), the position of the thread  *)
(* that runs execute_investment_loop, and the observable outcome of the    *)
(* most recent component call (returned value, raised error, the records   *)
(* handed to logger.error, the number of collaborator calls made).         *)
(*                                                                         *)
(* Weights are the float literals of the source in tenths (0.3 is 3, 0.1   *)
(* is 1, a full allocation is WeightScale).  The list of assets is         *)
(* modelled by the set of its elements: the dict comprehension of          *)
(* optimize_portfolio keeps one entry per distinct asset.                  *)
(***************************************************************************)
EXTENDS Integers, Sequences, FiniteSets, TLC

VARIABLES
    data_collector,          \* MarketRegimeDetector.data_collector of the agent's detector
    market_regime_detector,  \* PortfolioOptimizer.market_regime_detector of the agent's optimizer
    assigned,                \* the references the caller has assigned since construction
    last,                    \* outcome of the most recent component call
    seen,                    \* (fetched data, returned label) of every detect_regime run that returned
    loop_pc,                 \* position of the thread running execute_investment_loop
    cancel_requested         \* the caller has asked the running loop to stop

vars == <<data_collector, market_regime_detector, assigned, last, seen,
          loop_pc, cancel_requested>>

----------------------------------------------------------------------------
(* Bounds of the model and literals of the source *)

MaxAssets == 2

WeightScale == 10

VolatilityThreshold == 20

TrendThreshold == 0

BullishWeight == 3

DefaultWeight == 1

Universe == 1 .. MaxAssets

AssetLists == SUBSET Universe

\* The goals mappings tried: an even prior (0.5 on every asset) and a prior
\* that puts 0.5 on asset 1 only.
GoalMaps ==
    {[a \in Universe |-> 5], [a \in Universe |-> IF a = 1 THEN 5 ELSE 0]}

Volatilities == {VolatilityThreshold, 25}

Trends == {-1, TrendThreshold, 1}

Data == [volatility : Volatilities, trend : Trends]

NoData == [volatility |-> 0, trend |-> 0]

ReturnValues == {-1, 2}

ReturnSeries == [1 .. 2 -> ReturnValues]

StubErrors == {"DataUnavailableError", "TimeoutError"}

\* What a caller-supplied data collector does when fetch_data() is called:
\* it returns a data record, returns None, or raises.
Responses ==
    {[kind |-> "data", data |-> d, error |-> "-"] : d \in Data}
    \cup {[kind |-> "none", data |-> NoData, error |-> "-"]}
    \cup {[kind |-> "raise", data |-> NoData, error |-> e] : e \in StubErrors}

CollectorRefs == {"None", "DataCollector", "Stub"}

DetectorRefs == {"None", "MarketRegimeDetector"}

NoAlloc == [a \in {} |-> 0]

NoRisk == [present |-> FALSE, volatility |-> 0, value_at_risk |-> 0,
           conditional_value_at_risk |-> 0]

NoCall ==
    [op |-> "none", status |-> "-", label |-> "-", alloc |-> NoAlloc,
     risk |-> NoRisk, error |-> "-",
     fetches |-> 0, detects |-> 0, logged |-> << >>,
     has_data |-> FALSE, data |-> NoData, repeated |-> FALSE,
     dc_error |-> "-", detect_error |-> "-",
     assets |-> {}, goals |-> [a \in Universe |-> 0],
     returns |-> << >>]

RECURSIVE SumOver(_, _)
SumOver(f, S) ==
    IF S = {} THEN 0
    ELSE LET a == CHOOSE x \in S : TRUE
         IN  f[a] + SumOver(f, S \ {a})

----------------------------------------------------------------------------
(* The constructors *)

MarketRegimeDetector_init == "None"

PortfolioOptimizer_init_Wired == "MarketRegimeDetector"

PortfolioOptimizer_init == "None"

----------------------------------------------------------------------------
(* DataCollector.fetch_data as detect_regime calls it: with no argument *)

fetch_data(dc, resp) ==
    IF dc = "None"
    THEN \* None has no attribute fetch_data: nothing is called
         [status |-> "raise", error |-> "AttributeError", calls |-> 0,
          raised_by_collector |-> FALSE, data |-> NoData, is_none |-> FALSE]
    ELSE IF dc = "DataCollector"
    THEN \* fetch_data(self, asset) called without asset
         [status |-> "raise", error |-> "TypeError", calls |-> 1,
          raised_by_collector |-> TRUE, data |-> NoData, is_none |-> FALSE]
    ELSE IF resp.kind = "raise"
    THEN [status |-> "raise", error |-> resp.error, calls |-> 1,
          raised_by_collector |-> TRUE, data |-> NoData, is_none |-> FALSE]
    ELSE [status |-> "return", error |-> "-", calls |-> 1,
          raised_by_collector |-> FALSE, data |-> resp.data,
          is_none |-> (resp.kind = "none")]

----------------------------------------------------------------------------
(* MarketRegimeDetector.detect_regime *)

Classify_TrendFirst(d) ==
    IF d.trend > TrendThreshold THEN "bullish"
    ELSE IF d.volatility > VolatilityThreshold THEN "volatile"
    ELSE "bearish"

Classify_Inclusive(d) ==
    IF d.volatility >= VolatilityThreshold THEN "volatile"
    ELSE IF d.trend >= TrendThreshold THEN "bullish"
    ELSE "bearish"

Classify_Sticky(d) ==
    IF d.volatility > VolatilityThreshold \/ last.label = "volatile" THEN "volatile"
    ELSE IF d.trend > TrendThreshold THEN "bullish"
    ELSE "bearish"

Classify(d) ==
    IF d.volatility > VolatilityThreshold THEN "volatile"
    ELSE IF d.trend > TrendThreshold THEN "bullish"
    ELSE "bearish"

DetectRaise(f, err) ==
    [status |-> "raise", label |-> "-", error |-> err, fetches |-> f.calls,
     logged |-> <<[fn |-> "detect_regime", err |-> err]>>,
     has_data |-> FALSE, data |-> NoData,
     dc_error |-> IF f.raised_by_collector THEN f.error ELSE "-"]

detect_regime_Retry(dc, resp) ==
    LET f == fetch_data(dc, resp)
    IN  IF f.status = "raise"
        THEN [DetectRaise(f, f.error) EXCEPT !.fetches = 2 * f.calls]
        ELSE IF f.is_none
        THEN DetectRaise(f, "TypeError")
        ELSE [status |-> "return", label |-> Classify(f.data), error |-> "-",
              fetches |-> f.calls, logged |-> << >>,
              has_data |-> TRUE, data |-> f.data, dc_error |-> "-"]

detect_regime(dc, resp) ==
    LET f == fetch_data(dc, resp)
    IN  IF f.status = "raise"
        THEN DetectRaise(f, f.error)
        ELSE IF f.is_none
        THEN \* data['volatility'] on None
             DetectRaise(f, "TypeError")
        ELSE [status |-> "return", label |-> Classify(f.data), error |-> "-",
              fetches |-> f.calls, logged |-> << >>,
              has_data |-> TRUE, data |-> f.data, dc_error |-> "-"]

----------------------------------------------------------------------------
(* PortfolioOptimizer.optimize_portfolio *)

optimize_portfolio(mrd, dc, resp, assets, goals) ==
    IF mrd = "None"
    THEN \* None has no attribute detect_regime
         [NoCall EXCEPT !.op = "optimize_portfolio", !.status = "raise",
                        !.error = "AttributeError",
                        !.logged = <<[fn |-> "optimize_portfolio",
                                      err |-> "AttributeError"]>>,
                        !.assets = assets, !.goals = goals]
    ELSE LET d == detect_regime(dc, resp)
         IN  IF d.status = "raise"
             THEN [NoCall EXCEPT !.op = "optimize_portfolio", !.status = "raise",
                                 !.error = d.error,
                                 !.fetches = d.fetches, !.detects = 1,
                                 !.logged = Append(d.logged,
                                                [fn |-> "optimize_portfolio",
                                                 err |-> d.error]),
                                 !.dc_error = d.dc_error,
                                 !.detect_error = d.error,
                                 !.assets = assets, !.goals = goals]
             ELSE [NoCall EXCEPT !.op = "optimize_portfolio", !.status = "return",
                                 !.label = d.label,
                                 !.alloc = [a \in assets |->
                                              IF d.label = "bullish"
                                              THEN BullishWeight
                                              ELSE DefaultWeight],
                                 !.fetches = d.fetches, !.detects = 1,
                                 !.has_data = TRUE, !.data = d.data,
                                 !.assets = assets, !.goals = goals]

----------------------------------------------------------------------------
(* RiskManager.assess_strategy_risk: the body is pass, the call returns None *)

assess_strategy_risk(strategy_params) ==
    [NoCall EXCEPT !.op = "assess_strategy_risk", !.status = "return",
                   !.risk = NoRisk, !.returns = strategy_params]

----------------------------------------------------------------------------
(* The state after CoreInvestmentAgent() *)

Init ==
    /\ data_collector = MarketRegimeDetector_init
    /\ market_regime_detector = PortfolioOptimizer_init
    /\ assigned = {}
    /\ last = NoCall
    /\ seen = {}
    /\ loop_pc = "not_started"
    /\ cancel_requested = FALSE

(* The caller assigns the public attributes *)

SetDataCollector ==
    /\ loop_pc = "not_started"
    /\ \E v \in CollectorRefs :
          /\ data_collector' = v
          /\ assigned' = assigned \cup {"data_collector"}
    /\ UNCHANGED <<market_regime_detector, last, seen, loop_pc, cancel_requested>>

SetMarketRegimeDetector ==
    /\ loop_pc = "not_started"
    /\ \E v \in DetectorRefs :
          /\ market_regime_detector' = v
          /\ assigned' = assigned \cup {"market_regime_detector"}
    /\ UNCHANGED <<data_collector, last, seen, loop_pc, cancel_requested>>

(* The component calls *)

DetectRegime ==
    /\ loop_pc = "not_started"
    /\ \E resp \in Responses :
          LET d == detect_regime(data_collector, resp)
          IN  /\ last' = [NoCall EXCEPT !.op = "detect_regime",
                                        !.status = d.status, !.label = d.label,
                                        !.error = d.error, !.fetches = d.fetches,
                                        !.logged = d.logged,
                                        !.has_data = d.has_data, !.data = d.data,
                                        !.repeated = (d.status = "return"
                                                      /\ \E p \in seen : p.data = d.data),
                                        !.dc_error = d.dc_error]
              /\ seen' = IF d.status = "return"
                         THEN seen \cup {[data |-> d.data, label |-> d.label]}
                         ELSE seen
    /\ UNCHANGED <<data_collector, market_regime_detector, assigned,
                   loop_pc, cancel_requested>>

OptimizePortfolio ==
    /\ loop_pc = "not_started"
    /\ \E resp \in Responses, assets \in AssetLists, goals \in GoalMaps :
          last' = optimize_portfolio(market_regime_detector, data_collector,
                                     resp, assets, goals)
    /\ UNCHANGED <<data_collector, market_regime_detector, assigned, seen,
                   loop_pc, cancel_requested>>

AssessStrategyRisk ==
    /\ loop_pc = "not_started"
    /\ \E r \in ReturnSeries : last' = assess_strategy_risk(r)
    /\ UNCHANGED <<data_collector, market_regime_detector, assigned, seen,
                   loop_pc, cancel_requested>>

(* CoreInvestmentAgent.execute_investment_loop: while True: pass *)

StartLoop ==
    /\ loop_pc = "not_started"
    /\ loop_pc' = "while_test"
    /\ UNCHANGED <<data_collector, market_regime_detector, assigned, last, seen,
                   cancel_requested>>

\* The test of `while True`.  A request to stop may have arrived from the
\* caller by now; the test does not read it.
LoopTest ==
    /\ loop_pc = "while_test"
    /\ loop_pc' = "body"
    /\ \E c \in BOOLEAN : cancel_requested' = (cancel_requested \/ c)
    /\ UNCHANGED <<data_collector, market_regime_detector, assigned, last, seen>>

LoopBody ==
    /\ loop_pc = "body"
    /\ loop_pc' = "while_test"
    /\ UNCHANGED <<data_collector, market_regime_detector, assigned, last, seen,
                   cancel_requested>>

Next ==
    \/ SetDataCollector
    \/ SetMarketRegimeDetector
    \/ DetectRegime
    \/ OptimizePortfolio
    \/ AssessStrategyRisk
    \/ StartLoop
    \/ LoopTest
    \/ LoopBody

Spec == Init /\ [][Next]_vars

\* The thread that runs the loop is scheduled: a loop step that stays enabled
\* is eventually taken.
FairSpec == Spec /\ WF_vars(LoopTest) /\ WF_vars(LoopBody)

TypeOK ==
    /\ data_collector \in CollectorRefs
    /\ market_regime_detector \in DetectorRefs
    /\ assigned \subseteq {"data_collector", "market_regime_detector"}
    /\ last.op \in {"none", "detect_regime", "optimize_portfolio",
                    "assess_strategy_risk"}
    /\ last.status \in {"-", "return", "raise"}
    /\ loop_pc \in {"not_started", "while_test", "body"}
    /\ cancel_requested \in BOOLEAN

----------------------------------------------------------------------------
(* Properties *)

Returned(op) == last.op = op /\ last.status = "return"

Raised(op) == last.op = op /\ last.status = "raise"

\* C1: for every non-empty list of assets, every goals mapping and every
\* regime detect_regime can return, the allocation optimize_portfolio returns
\* has only non-negative weights and its weights sum to 1.
C1_WeightsSumToOne ==
    (Returned("optimize_portfolio") /\ last.assets # {}) =>
        /\ \A a \in last.assets : last.alloc[a] >= 0
        /\ SumOver(last.alloc, last.assets) = WeightScale

\* C2: the volatility check takes precedence over the trend check: whenever
\* the fetched volatility is above the threshold, detect_regime returns
\* 'volatile' whatever the trend is.
C2_VolatilityPrecedence ==
    (Returned("detect_regime") /\ last.data.volatility > VolatilityThreshold) =>
        last.label = "volatile"

C2_Witness ==
    /\ Returned("detect_regime")
    /\ last.data = [volatility |-> 25, trend |-> 1]
    /\ last.label = "volatile"

\* C3: optimize_portfolio starts from the goals as a prior and preserves
\* their ratios: every asset being scaled by the same regime multiplier, the
\* returned weights equal the normalised goals; goals {1: 0.5, 2: 0.5} under
\* a 'volatile' regime give back {1: 0.5, 2: 0.5}.
C3_GoalsPreserved ==
    (Returned("optimize_portfolio") /\ SumOver(last.goals, last.assets) > 0) =>
        \A a \in last.assets :
            last.alloc[a] * SumOver(last.goals, last.assets)
                = last.goals[a] * WeightScale

\* C4: when the data fetch fails while the regime is being detected as part
\* of optimize_portfolio, exactly one alert (one error record) is emitted for
\* that single failure.
C4_ExactlyOneAlert ==
    (Raised("optimize_portfolio") /\ last.dc_error # "-") =>
        Len(last.logged) = 1

C6_ConstantSeriesRisk ==
    (last.op = "assess_strategy_risk"
        /\ \A i \in DOMAIN last.returns : last.returns[i] = last.returns[1]) =>
        /\ last.status = "return"
        /\ last.risk.present
        /\ last.risk.volatility = 0
        /\ last.risk.value_at_risk = last.returns[1]
        /\ last.risk.conditional_value_at_risk = last.returns[1]

\* C7: ties resolve toward the lower-risk label: a volatility exactly on its
\* threshold does not give 'volatile', and a trend exactly on its threshold
\* with the volatility not above its threshold gives 'bearish' (or neutral),
\* never 'bullish'.
C7_TiesLowerRisk ==
    Returned("detect_regime") =>
        /\ (last.data.volatility = VolatilityThreshold => last.label # "volatile")
        /\ (last.data.trend = TrendThreshold
                /\ last.data.volatility <= VolatilityThreshold
            => last.label \in {"bearish", "neutral"})

C7_Witness ==
    /\ Returned("detect_regime")
    /\ last.data = [volatility |-> VolatilityThreshold, trend |-> TrendThreshold]
    /\ last.label = "bearish"

\* C8: execute_investment_loop never blocks indefinitely: once cancellation
\* has been requested of the running loop, the loop eventually stops.
C8_CancelStopsLoop ==
    (loop_pc # "not_started" /\ cancel_requested) ~> (loop_pc = "returned")

\* C9: component errors propagate and no component retries: when the data
\* collector raises inside detect_regime, detect_regime has called it exactly
\* once and raises that same error; when detect_regime raises inside
\* optimize_portfolio, optimize_portfolio has called it exactly once, raises
\* that same error and returns no allocation.
C9_PropagateNoRetry ==
    /\ (last.op = "detect_regime" /\ last.dc_error # "-") =>
           /\ last.status = "raise"
           /\ last.error = last.dc_error
           /\ last.fetches = 1
    /\ (last.op = "optimize_portfolio" /\ last.dc_error # "-") =>
           /\ last.fetches = 1
           /\ last.detect_error = last.dc_error
    /\ (last.op = "optimize_portfolio" /\ last.detect_error # "-") =>
           /\ last.status = "raise"
           /\ last.error = last.detect_error
           /\ last.detects = 1
           /\ last.alloc = NoAlloc

C9_Witness ==
    /\ Raised("optimize_portfolio")
    /\ last.dc_error = "DataUnavailableError"
    /\ last.detect_error = "DataUnavailableError"
    /\ last.error = "DataUnavailableError"
    /\ last.fetches = 1
    /\ last.detects = 1

====
